---- MODULE Spec2Model ----
(***************************************************************************)
(* State machine of the StacksWalletConnect client                         *)
(* (src/src/walletconnect/contract.ts): the session store, the pairing /   *)
(* approval / rejection / disconnect calls, and the session_request        *)
(* dispatcher.  The WalletKit transport is the environment: every call     *)
(* into it is a suspension point that settles (resolves or rejects) in a   *)
(* later step, with any other event or call free to happen in between.     *)
(***************************************************************************)
EXTENDS Integers, Sequences, FiniteSets, Bags, TLC

(* ------------------------------ bounds -------------------------------- *)

\* Topics the transport can hand out (opaque identifiers, here 1..MaxTopics).
MaxTopics == 2
\* session_request events delivered in one behaviour (ids 1..MaxRequests).
MaxRequests == 1
\* pair/approve/reject/disconnect calls that may be suspended at once.
MaxCalls == 1
\* session_request events delivered in one behaviour of SpecRequests.
MaxOverlap == 2
\* The largest uint of the ledger-lock contract (2^128 - 1 in Clarity): uint
\* arithmetic that leaves 0..UintMax aborts the transaction.
UintMax == 2
\* The highest stacks-block-height a behaviour of SpecLedger reaches.
MaxBlock == 1

(* --------------------------- input domains ---------------------------- *)

Topics == 1..MaxTopics
ProposalIds == {11, 12}
Addresses == {"SP3F7GQ48JY59521DZEE6KABHBF4Q33PEYJ823ZXQ", "ST2J6ZY48GV1EZ5V2V5RB9MP66SW86PYKKNRV9EJ7"}
StacksNetwork == {"mainnet", "testnet", "devnet"}
Uris == {"wc:uri"}
Params == {"{}", "{amount}"}
\* The session_proposal events the methods are called with: proposal 11 asks
\* for one approved method, proposal 12 for a foreign one and an approved one.
Proposal(id) ==
  [id |-> id,
   params |-> [requested |-> IF id = 11 THEN {"stx_getAddresses"}
                             ELSE {"eth_sign", "stx_transferStx"}]]

\* The methods announced at approval (contract.ts 195-202).
ApprovedMethods ==
  {"stx_getAddresses", "stx_transferStx", "stx_signTransaction",
   "stx_signMessage", "stx_signStructuredMessage", "stx_callContract"}
\* The events announced at approval (contract.ts 203).
ApprovedEvents == {"addressChanged", "networkChanged"}
\* Method names a session_request can carry: the six above and two foreign ones.
Methods == ApprovedMethods \cup {"eth_sign", "stx_getAccounts"}

(* ------------------------- Map<string, Session> ----------------------- *)

MapHas(m, k) == k \in DOMAIN m
MapSet(m, k, v) == [x \in (DOMAIN m) \cup {k} |-> IF x = k THEN v ELSE m[x]]
MapDelete(m, k) == [x \in (DOMAIN m) \ {k} |-> m[x]]
EmptyMap == [x \in {} |-> 0]

(* ------------------------------- state -------------------------------- *)

VARIABLES
  walletKit,       \* "null" or "kit": the IWalletKit field
  activeSessions,  \* the activeSessions Map: topic -> WalletConnectSession
  assigned,        \* transport: topics it has handed out so far
  calls,           \* bag of the suspended pair/approve/reject/disconnect calls
  requests,        \* session_request handlings, indexed by request id
  responses,       \* every argument passed to respondSessionRequest, in order
  last             \* what the latest step was and how it ended for its caller

\* The data of the ledger-lock contract (src/contracts/ledger-lock.clar).
VARIABLES
  counter,             \* (define-data-var counter uint u0)
  owner,               \* (define-data-var owner principal CONTRACT-OWNER)
  paused,              \* (define-data-var paused bool false)
  total_increments,    \* (define-data-var total-increments uint u0)
  total_decrements,    \* (define-data-var total-decrements uint u0)
  user_operations,     \* (define-map user-operations principal {...})
  stacks_block_height, \* the chain's block height
  response             \* the latest contract call and what it returned

ledgerVars == <<counter, owner, paused, total_increments, total_decrements,
                user_operations, stacks_block_height, response>>

vars == <<walletKit, activeSessions, assigned, calls, requests, responses, last,
          counter, owner, paused, total_increments, total_decrements,
          user_operations, stacks_block_height, response>>

\* `calls` is the bag of the promises the client is suspended on.
Suspend(c) == calls (+) SetToBag({c})
Resume(c) == calls (-) SetToBag({c})
Suspended(op) == {c \in BagToSet(calls) : c.op = op}
\* Whether one more call may be suspended.
MaySuspend == BagCardinality(calls) < MaxCalls

\* The record kept in `last`: the operation, its argument, how it ended for its
\* caller ("pending" while it awaits the transport) and the transport call the
\* step made ("none" when it made none).
Step(op, arg, outcome, transport) ==
  [op |-> op, arg |-> arg, outcome |-> outcome, transport |-> transport]

(* ----------------------- ledger-lock: constants ----------------------- *)

\* The principals that send transactions; the first one deployed the contract.
Principals == {"deployer", "wallet_1", "wallet_2"}
\* uint values, as arguments of the public functions.
Uint == 0..UintMax

\* (ok value), (err code), and the abort of a transaction on a runtime error.
Ok(value) == [kind |-> "ok", value |-> value]
Err(code) == [kind |-> "err", code |-> code]
RuntimeError == [kind |-> "runtime", error |-> "ArithmeticOverflow"]

ERR_NOT_AUTHORIZED == Err(100)
ERR_COUNTER_UNDERFLOW == Err(101)
ERR_COUNTER_OVERFLOW == Err(102)
ERR_INVALID_VALUE == Err(103)
ERR_SAME_OWNER == Err(105)

CONTRACT_OWNER == "deployer"
MAX_COUNTER_VALUE == UintMax
MIN_COUNTER_VALUE == 0

\* The record kept in `response`: the function called, its tx-sender and what
\* the call returned.
Called(fn, sender, result) == [fn |-> fn, sender |-> sender, result |-> result]

\* The contract as deployed.
InitLedger ==
  /\ counter = 0
  /\ owner = CONTRACT_OWNER
  /\ paused = FALSE
  /\ total_increments = 0
  /\ total_decrements = 0
  /\ user_operations = EmptyMap
  /\ stacks_block_height = 0
  /\ response = Called("deploy", CONTRACT_OWNER, Ok(TRUE))

(* ------------------------------ construction -------------------------- *)

Init ==
  /\ walletKit = "null"
  /\ activeSessions = EmptyMap
  /\ assigned = {}
  /\ calls = EmptyBag
  /\ requests = << >>
  /\ responses = << >>
  /\ last = Step("new", "", "returned", "none")
  /\ InitLedger

\* A call made before initialization: `throw new Error('WalletConnect not
\* initialized')`, nothing else happens.
NotInitialized(op, arg) ==
  /\ last' = Step(op, arg, "NotInitialized", "none")
  /\ UNCHANGED <<walletKit, activeSessions, assigned, calls, requests, responses>>

(* ----------------------------- initialize ----------------------------- *)

\* initialize(): WalletKit.init resolves (ok) or rejects; on success the field
\* is set and the listeners are registered, on failure the error is rethrown
\* and the field keeps its value.  A repeated initialize stores a new kit; the
\* model has one transport and does not tell the kits apart.
initialize(ok) ==
  /\ walletKit' = IF ok THEN "kit" ELSE walletKit
  /\ last' = Step("initialize", "", IF ok THEN "returned" ELSE "InitError", "init")
  /\ UNCHANGED <<activeSessions, assigned, calls, requests, responses>>

(* -------------------------------- pair -------------------------------- *)

pair(uri) ==
  IF walletKit = "null"
  THEN NotInitialized("pair", uri)
  ELSE /\ MaySuspend
       /\ calls' = Suspend([op |-> "pair", uri |-> uri])
       /\ last' = Step("pair", uri, "pending", "pair")
       /\ UNCHANGED <<walletKit, activeSessions, assigned, requests, responses>>

\* The transport's pairing.pair settles; pair() returns or rethrows.
pairSettled(c, ok) ==
  /\ c \in Suspended("pair")
  /\ calls' = Resume(c)
  /\ last' = Step("pair", c.uri, IF ok THEN "returned" ELSE "TransportError", "none")
  /\ UNCHANGED <<walletKit, activeSessions, assigned, requests, responses>>

(* --------------------------- approveSession --------------------------- *)

\* `stacks:${network}` and `${chainId}:${address}`
ChainId(network) == "stacks:" \o network
\* A slip: the account always on mainnet.
Account_Mainnet(network, address) == "stacks:mainnet:" \o address
Account(network, address) == ChainId(network) \o ":" \o address

\* The argument of walletKit.approveSession.
ApproveParams(id, address, network) ==
  [id |-> id,
   namespaces |-> [stacks |->
     [accounts |-> <<Account(network, address)>>,
      methods |-> <<"stx_getAddresses", "stx_transferStx", "stx_signTransaction",
                    "stx_signMessage", "stx_signStructuredMessage", "stx_callContract">>,
      events |-> <<"addressChanged", "networkChanged">>]],
   sessionProperties |-> [stacks_getAddresses |->
     "{\"addresses\":[{\"symbol\":\"STX\",\"address\":\"" \o address \o "\"}]}"]]

\* The value stored for an approved session.
NewSession(topic, address, network) ==
  [topic |-> topic,
   addresses |-> <<[symbol |-> "STX", address |-> address]>>,
   network |-> network]

\* A slip: the session stored under the proposal's id.
SessionKey_ProposalId(id, session) == id

\* The key under which an approved session is stored: session.topic.
SessionKey(id, session) == session.topic

\* The transport answers an approval with a session under a topic it never
\* handed out before, or refuses (NoSession); which one is fixed when the call
\* is made and delivered when the call settles.
NoSession == [topic |-> 0]
TransportSessions == {[topic |-> t] : t \in Topics \ assigned} \cup {NoSession}

\* `const { id, params } = proposal`: params stays an unread local of the
\* call, what is announced to the transport is built without it.
approveSession(id, address, network) ==
  IF walletKit = "null"
  THEN NotInitialized("approveSession", id)
  ELSE /\ MaySuspend
       /\ \E session \in TransportSessions :
            /\ calls' = Suspend([op |-> "approveSession", proposal |-> Proposal(id),
                  address |-> address, network |-> network,
                  params |-> ApproveParams(id, address, network), session |-> session])
            /\ assigned' = assigned \cup ({session.topic} \cap Topics)
       /\ last' = Step("approveSession", id, "pending", "approveSession")
       /\ UNCHANGED <<walletKit, activeSessions, requests, responses>>

\* A slip: the store written before the outcome of the transport call is
\* looked at, so a refused approval leaves an entry under its (empty) topic.
approveSettled_StoresOnRefusal(c) ==
  /\ c \in Suspended("approveSession")
  /\ LET ok == c.session # NoSession
     IN /\ activeSessions' =
             MapSet(activeSessions, c.session.topic, NewSession(c.session.topic, c.address, c.network))
        /\ last' = Step("approveSession", IF ok THEN c.session.topic ELSE c.params.id,
                        IF ok THEN "returned" ELSE "TransportError", "none")
  /\ calls' = Resume(c)
  /\ UNCHANGED <<walletKit, assigned, requests, responses>>

\* A slip: `this.activeSessions = new Map([[session.topic, ...]])`, the new
\* session replaces the store.
approveSettled_Replaces(c) ==
  /\ c \in Suspended("approveSession")
  /\ LET ok == c.session # NoSession
     IN /\ activeSessions' =
             IF ok THEN MapSet(EmptyMap, c.session.topic, NewSession(c.session.topic, c.address, c.network))
                   ELSE activeSessions
        /\ last' = Step("approveSession", IF ok THEN c.session.topic ELSE c.params.id,
                        IF ok THEN "returned" ELSE "TransportError", "none")
  /\ calls' = Resume(c)
  /\ UNCHANGED <<walletKit, assigned, requests, responses>>

\* A slip: an approval also moves every stored session to its network.
approveSettled_SwitchesNetwork(c) ==
  /\ c \in Suspended("approveSession")
  /\ LET ok == c.session # NoSession
         moved == [t \in DOMAIN activeSessions |-> [activeSessions[t] EXCEPT !.network = c.network]]
     IN /\ activeSessions' =
             IF ok THEN MapSet(moved, c.session.topic, NewSession(c.session.topic, c.address, c.network))
                   ELSE activeSessions
        /\ last' = Step("approveSession", IF ok THEN c.session.topic ELSE c.params.id,
                        IF ok THEN "returned" ELSE "TransportError", "none")
  /\ calls' = Resume(c)
  /\ UNCHANGED <<walletKit, assigned, requests, responses>>

\* walletKit.approveSession settles: on success the session is stored, on
\* failure the error propagates and the store is not touched.
approveSettled(c) ==
  /\ c \in Suspended("approveSession")
  /\ LET ok == c.session # NoSession
         key == SessionKey(c.params.id, c.session)
     IN /\ activeSessions' =
             IF ok THEN MapSet(activeSessions, key, NewSession(c.session.topic, c.address, c.network))
                   ELSE activeSessions
        /\ last' = Step("approveSession", IF ok THEN c.session.topic ELSE c.params.id,
                        IF ok THEN "returned" ELSE "TransportError", "none")
  /\ calls' = Resume(c)
  /\ UNCHANGED <<walletKit, assigned, requests, responses>>

(* ---------------------------- rejectSession --------------------------- *)

\* A slip: the guard on walletKit left out.
rejectSession_Unguarded(id) ==
  /\ MaySuspend
  /\ calls' = Suspend([op |-> "rejectSession", params |-> [id |-> id, reason |-> "USER_REJECTED"]])
  /\ last' = Step("rejectSession", id, "pending", "rejectSession")
  /\ UNCHANGED <<walletKit, activeSessions, assigned, requests, responses>>

rejectSession(id) ==
  IF walletKit = "null"
  THEN NotInitialized("rejectSession", id)
  ELSE /\ MaySuspend
       /\ calls' = Suspend([op |-> "rejectSession", params |-> [id |-> id, reason |-> "USER_REJECTED"]])
       /\ last' = Step("rejectSession", id, "pending", "rejectSession")
       /\ UNCHANGED <<walletKit, activeSessions, assigned, requests, responses>>

\* A slip: a rejection that went through empties the store.
rejectSettled_Clears(c, ok) ==
  /\ c \in Suspended("rejectSession")
  /\ calls' = Resume(c)
  /\ activeSessions' = IF ok THEN EmptyMap ELSE activeSessions
  /\ last' = Step("rejectSession", c.params.id,
                  IF ok THEN "returned" ELSE "TransportError", "none")
  /\ UNCHANGED <<walletKit, assigned, requests, responses>>

\* walletKit.rejectSession settles; rejectSession() returns or rethrows.
rejectSettled(c, ok) ==
  /\ c \in Suspended("rejectSession")
  /\ calls' = Resume(c)
  /\ last' = Step("rejectSession", c.params.id,
                  IF ok THEN "returned" ELSE "TransportError", "none")
  /\ UNCHANGED <<walletKit, activeSessions, assigned, requests, responses>>

(* -------------------------- disconnectSession ------------------------- *)

\* A slip: an early return when the topic is not stored locally, so the
\* transport is never told.
disconnectSession_SkipsUnknown(topic) ==
  IF walletKit = "null"
  THEN NotInitialized("disconnectSession", topic)
  ELSE IF ~MapHas(activeSessions, topic)
  THEN /\ last' = Step("disconnectSession", topic, "returned", "none")
       /\ UNCHANGED <<walletKit, activeSessions, assigned, calls, requests, responses>>
  ELSE /\ MaySuspend
       /\ calls' = Suspend([op |-> "disconnectSession",
             params |-> [topic |-> topic, reason |-> "USER_DISCONNECTED"]])
       /\ last' = Step("disconnectSession", topic, "pending", "disconnectSession")
       /\ UNCHANGED <<walletKit, activeSessions, assigned, requests, responses>>

disconnectSession(topic) ==
  IF walletKit = "null"
  THEN NotInitialized("disconnectSession", topic)
  ELSE /\ MaySuspend
       /\ calls' = Suspend([op |-> "disconnectSession",
             params |-> [topic |-> topic, reason |-> "USER_DISCONNECTED"]])
       /\ last' = Step("disconnectSession", topic, "pending", "disconnectSession")
       /\ UNCHANGED <<walletKit, activeSessions, assigned, requests, responses>>

\* A slip: the local delete after the transport call left out.
disconnectSettled_KeepsEntry(c, ok) ==
  /\ c \in Suspended("disconnectSession")
  /\ last' = Step("disconnectSession", c.params.topic,
                  IF ok THEN "returned" ELSE "TransportError", "none")
  /\ calls' = Resume(c)
  /\ UNCHANGED <<walletKit, activeSessions, assigned, requests, responses>>

\* A slip: the local delete in a `finally`, done whatever the transport said.
disconnectSettled_DeletesAnyway(c, ok) ==
  /\ c \in Suspended("disconnectSession")
  /\ LET topic == c.params.topic
     IN /\ activeSessions' = MapDelete(activeSessions, topic)
        /\ last' = Step("disconnectSession", topic,
                        IF ok THEN "returned" ELSE "TransportError", "none")
  /\ calls' = Resume(c)
  /\ UNCHANGED <<walletKit, assigned, requests, responses>>

\* walletKit.disconnectSession settles: on success the entry is deleted, on
\* failure the error propagates before the delete.
disconnectSettled(c, ok) ==
  /\ c \in Suspended("disconnectSession")
  /\ LET topic == c.params.topic
     IN /\ activeSessions' = IF ok THEN MapDelete(activeSessions, topic) ELSE activeSessions
        /\ last' = Step("disconnectSession", topic,
                        IF ok THEN "returned" ELSE "TransportError", "none")
  /\ calls' = Resume(c)
  /\ UNCHANGED <<walletKit, assigned, requests, responses>>

(* -------------------------- getActiveSessions ------------------------- *)

\* A slip: the sessions are handed over and the store is emptied.
getActiveSessions_Drains ==
  /\ activeSessions' = EmptyMap
  /\ last' = Step("getActiveSessions", {activeSessions[t] : t \in DOMAIN activeSessions},
                  "returned", "none")
  /\ UNCHANGED <<walletKit, assigned, calls, requests, responses>>

\* Array.from(this.activeSessions.values()): the stored sessions, with no
\* check of walletKit.  The Map's insertion order is not kept by the model,
\* so the result is the collection of the values.
getActiveSessions ==
  /\ last' = Step("getActiveSessions", {activeSessions[t] : t \in DOMAIN activeSessions},
                  "returned", "none")
  /\ UNCHANGED <<walletKit, activeSessions, assigned, calls, requests, responses>>

(* ------------------------ session_delete listener --------------------- *)

\* A slip: `this.activeSessions.clear()` in the listener.
sessionDelete_Clears(topic) ==
  /\ walletKit = "kit"
  /\ activeSessions' = EmptyMap
  /\ last' = Step("session_delete", topic, "returned", "none")
  /\ UNCHANGED <<walletKit, assigned, calls, requests, responses>>

\* The listener exists once setupEventListeners has run.
sessionDelete(topic) ==
  /\ walletKit = "kit"
  /\ activeSessions' = MapDelete(activeSessions, topic)
  /\ last' = Step("session_delete", topic, "returned", "none")
  /\ UNCHANGED <<walletKit, assigned, calls, requests, responses>>

(* ----------------------- session_request dispatch -------------------- *)

\* Thrown values: an Error with a message, or some value that is no Error.
Error(message) == [isError |-> TRUE, message |-> message]
NonError == [isError |-> FALSE, message |-> ""]
\* What a settling transport call can reject with.
TransportFailures == {Error("Transport error"), NonError}

\* How an async handler ends: it resolves with a value or rejects with an error.
Returned(value) == [ok |-> TRUE, value |-> value]
Thrown(error) == [ok |-> FALSE, error |-> error]

\* A slip: `session?.addresses ?? []` in place of the absent check.
handleGetAddresses_NoAbsentCheck(topic) ==
  IF ~MapHas(activeSessions, topic)
  THEN Returned([addresses |-> << >>])
  ELSE Returned([addresses |-> activeSessions[topic].addresses])

\* A slip: the addresses of the first stored session, whatever the topic.
handleGetAddresses_FirstSession(topic) ==
  IF ~MapHas(activeSessions, topic)
  THEN Thrown(Error("Session not found"))
  ELSE LET first == CHOOSE k \in DOMAIN activeSessions : \A u \in DOMAIN activeSessions : k <= u
       IN Returned([addresses |-> activeSessions[first].addresses])

handleGetAddresses(topic) ==
  IF ~MapHas(activeSessions, topic)
  THEN Thrown(Error("Session not found"))
  ELSE Returned([addresses |-> activeSessions[topic].addresses])

handleTransferStx(params) ==
  Thrown(Error("Transfer STX not implemented - connect to your wallet implementation"))

handleSignTransaction(params) ==
  Thrown(Error("Sign transaction not implemented - connect to your wallet implementation"))

\* A slip: the placeholder returns instead of throwing.
handleSignMessage_Returns(params) == Returned("undefined")

handleSignMessage(params) ==
  Thrown(Error("Sign message not implemented - connect to your wallet implementation"))

handleSignStructuredMessage(params) ==
  Thrown(Error("Sign structured message not implemented - connect to your wallet implementation"))

handleCallContract(params) ==
  Thrown(Error("Call contract not implemented - connect to your wallet implementation"))

\* A slip: `default: break;`, the switch falls out with result undefined.
DefaultCase_Breaks(method) == [handler |-> "none", outcome |-> Returned("undefined")]

\* default: throw new Error(`Unsupported method: ${request.method}`)
DefaultCase(method) ==
  [handler |-> "none", outcome |-> Thrown(Error("Unsupported method: " \o method))]

\* The switch on request.method: the handler it invokes ("none" in the default
\* branch, which throws on the spot) and how that handler ends.
MethodSwitch(method, topic, params) ==
  CASE method = "stx_getAddresses" ->
         [handler |-> "handleGetAddresses", outcome |-> handleGetAddresses(topic)]
    [] method = "stx_transferStx" ->
         [handler |-> "handleTransferStx", outcome |-> handleTransferStx(params)]
    [] method = "stx_signTransaction" ->
         [handler |-> "handleSignTransaction", outcome |-> handleSignTransaction(params)]
    [] method = "stx_signMessage" ->
         [handler |-> "handleSignMessage", outcome |-> handleSignMessage(params)]
    [] method = "stx_signStructuredMessage" ->
         [handler |-> "handleSignStructuredMessage", outcome |-> handleSignStructuredMessage(params)]
    [] method = "stx_callContract" ->
         [handler |-> "handleCallContract", outcome |-> handleCallContract(params)]
    [] OTHER -> DefaultCase(method)

\* error instanceof Error ? error.message : 'Unknown error'
ErrorMessage(error) == IF error.isError THEN error.message ELSE "Unknown error"

\* The two arguments respondSessionRequest is called with.
ResultResponse(topic, id, result) ==
  [topic |-> topic, response |-> [id |-> id, jsonrpc |-> "2.0", result |-> result]]
\* A slip: the error Response carries a result field as well.
ErrorResponse_WithResult(topic, id, error) ==
  [topic |-> topic,
   response |-> [id |-> id, jsonrpc |-> "2.0", result |-> "null",
                 error |-> [code |-> 5000, message |-> ErrorMessage(error)]]]

ErrorResponse(topic, id, error) ==
  [topic |-> topic,
   response |-> [id |-> id, jsonrpc |-> "2.0",
                 error |-> [code |-> 5000, message |-> ErrorMessage(error)]]]

\* A slip: the catch block logs the error and sends nothing.
Catch_Swallows(r, error) ==
  /\ requests' = [requests EXCEPT ![r.id] = [r EXCEPT !.pc = "done"]]
  /\ last' = Step("session_request", r.id, "returned", "none")
  /\ UNCHANGED responses

\* What the catch block does with a caught error: one more call of
\* respondSessionRequest, awaited outside any try.
Catch(r, error) ==
  /\ responses' = Append(responses, ErrorResponse(r.topic, r.id, error))
  /\ requests' = [requests EXCEPT ![r.id] = [r EXCEPT !.pc = "awaitRespondError"]]
  /\ last' = Step("session_request", r.id, "pending", "respondSessionRequest")

\* A session_request event reaches the listener (registered by
\* setupEventListeners, so walletKit is set and the early return of
\* handleSessionRequest is not taken).  The switch runs at once: a known
\* method's handler is invoked and awaited, an unknown method throws into the
\* catch block.
sessionRequest(topic, method, params) ==
  /\ walletKit = "kit"
  /\ LET id == Len(requests) + 1
         sw == MethodSwitch(method, topic, params)
         r == [id |-> id, topic |-> topic, method |-> method,
               handler |-> sw.handler, outcome |-> sw.outcome, pc |-> "awaitHandler"]
     IN IF sw.handler # "none" \/ sw.outcome.ok
        THEN /\ requests' = Append(requests, r)
             /\ last' = Step("session_request", id, "pending", "none")
             /\ UNCHANGED responses
        ELSE /\ responses' = Append(responses, ErrorResponse(topic, id, sw.outcome.error))
             /\ requests' = Append(requests, [r EXCEPT !.pc = "awaitRespondError"])
             /\ last' = Step("session_request", id, "pending", "respondSessionRequest")
  /\ UNCHANGED <<walletKit, activeSessions, assigned, calls>>

\* The awaited handler has settled: its value goes out as a result Response,
\* its error is caught.  Every handler settles without suspending, so the
\* continuation is queued when the request is delivered and the continuations
\* run in the order of delivery.
handlerSettled(id) ==
  /\ id \in 1..Len(requests)
  /\ requests[id].pc = "awaitHandler"
  /\ \A j \in 1..(id - 1) : requests[j].pc # "awaitHandler"
  /\ LET r == requests[id]
     IN IF r.outcome.ok
        THEN /\ responses' = Append(responses, ResultResponse(r.topic, r.id, r.outcome.value))
             /\ requests' = [requests EXCEPT ![id].pc = "awaitRespondResult"]
             /\ last' = Step("session_request", id, "pending", "respondSessionRequest")
        ELSE Catch(r, r.outcome.error)
  /\ UNCHANGED <<walletKit, activeSessions, assigned, calls>>

\* respondSessionRequest resolves: handleSessionRequest returns.
respondResolved(id) ==
  /\ id \in 1..Len(requests)
  /\ requests[id].pc \in {"awaitRespondResult", "awaitRespondError"}
  /\ requests' = [requests EXCEPT ![id].pc = "done"]
  /\ last' = Step("session_request", id, "returned", "none")
  /\ UNCHANGED <<walletKit, activeSessions, assigned, calls, responses>>

\* respondSessionRequest rejects: inside the try the error is caught, inside
\* the catch block it leaves handleSessionRequest and the listener.
respondRejected(id, error) ==
  /\ id \in 1..Len(requests)
  /\ LET r == requests[id]
     IN \/ /\ r.pc = "awaitRespondResult"
           /\ Catch(r, error)
        \/ /\ r.pc = "awaitRespondError"
           /\ requests' = [requests EXCEPT ![id].pc = "rejected"]
           /\ last' = Step("session_request", id, "TransportError", "none")
           /\ UNCHANGED responses
  /\ UNCHANGED <<walletKit, activeSessions, assigned, calls>>

RequestIds == 1..MaxRequests

(* ------------------------ ledger-lock: functions ---------------------- *)

\* The variables of the WalletConnect client, which no contract call touches.
clientVars == <<walletKit, activeSessions, assigned, calls, requests, responses, last>>

\* A uint result that fits; anything else aborts the transaction.
Fits(x) == x \in Uint

\* A slip: ownership checked against the deployer.
is_contract_owner_Deployer(sender) == sender = CONTRACT_OWNER

\* (is-eq tx-sender (var-get owner))
is_contract_owner(sender) == sender = owner

is_paused == paused

\* (default-to {increments: u0, decrements: u0, last-action-block: u0}
\*   (map-get? user-operations user))
get_user_operations(user) ==
  IF MapHas(user_operations, user) THEN user_operations[user]
  ELSE [increments |-> 0, decrements |-> 0, last_action_block |-> 0]

\* update-user-stats: the entry it writes for tx-sender.
update_user_stats(sender, operation) ==
  LET current_stats == get_user_operations(sender)
  IN IF operation = "increment"
     THEN [increments |-> current_stats.increments + 1,
           decrements |-> current_stats.decrements,
           last_action_block |-> stacks_block_height]
     ELSE [increments |-> current_stats.increments,
           decrements |-> current_stats.decrements + 1,
           last_action_block |-> stacks_block_height]

\* The call returns an error or aborts: nothing it did is kept.
Rollback(fn, sender, result) ==
  /\ response' = Called(fn, sender, result)
  /\ UNCHANGED <<counter, owner, paused, total_increments, total_decrements, user_operations>>

lock(sender) ==
  /\ IF is_paused THEN Rollback("lock", sender, ERR_NOT_AUTHORIZED)
     ELSE IF ~(counter < MAX_COUNTER_VALUE) THEN Rollback("lock", sender, ERR_COUNTER_OVERFLOW)
     ELSE LET stats == update_user_stats(sender, "increment")
          IN IF ~Fits(counter + 1) \/ ~Fits(total_increments + 1) \/ ~Fits(stats.increments)
             THEN Rollback("lock", sender, RuntimeError)
             ELSE /\ counter' = counter + 1
                  /\ total_increments' = total_increments + 1
                  /\ user_operations' = MapSet(user_operations, sender, stats)
                  /\ response' = Called("lock", sender, Ok(counter + 1))
                  /\ UNCHANGED <<owner, paused, total_decrements>>
  /\ UNCHANGED <<stacks_block_height, clientVars>>

unlock(sender) ==
  /\ IF is_paused THEN Rollback("unlock", sender, ERR_NOT_AUTHORIZED)
     ELSE IF ~(counter > MIN_COUNTER_VALUE) THEN Rollback("unlock", sender, ERR_COUNTER_UNDERFLOW)
     ELSE LET stats == update_user_stats(sender, "decrement")
          IN IF ~Fits(counter - 1) \/ ~Fits(total_decrements + 1) \/ ~Fits(stats.decrements)
             THEN Rollback("unlock", sender, RuntimeError)
             ELSE /\ counter' = counter - 1
                  /\ total_decrements' = total_decrements + 1
                  /\ user_operations' = MapSet(user_operations, sender, stats)
                  /\ response' = Called("unlock", sender, Ok(counter - 1))
                  /\ UNCHANGED <<owner, paused, total_increments>>
  /\ UNCHANGED <<stacks_block_height, clientVars>>

\* The sum inside the third asserts! is computed before it is compared: when
\* it does not fit a uint the transaction aborts there.
lock_multiple(sender, amount) ==
  /\ IF is_paused THEN Rollback("lock-multiple", sender, ERR_NOT_AUTHORIZED)
     ELSE IF ~(amount > 0) THEN Rollback("lock-multiple", sender, ERR_INVALID_VALUE)
     ELSE IF ~Fits(counter + amount) THEN Rollback("lock-multiple", sender, RuntimeError)
     ELSE IF ~(counter + amount <= MAX_COUNTER_VALUE)
     THEN Rollback("lock-multiple", sender, ERR_COUNTER_OVERFLOW)
     ELSE IF ~Fits(total_increments + amount) THEN Rollback("lock-multiple", sender, RuntimeError)
     ELSE /\ counter' = counter + amount
          /\ total_increments' = total_increments + amount
          /\ response' = Called("lock-multiple", sender, Ok(counter + amount))
          /\ UNCHANGED <<owner, paused, total_decrements, user_operations>>
  /\ UNCHANGED <<stacks_block_height, clientVars>>

unlock_multiple(sender, amount) ==
  /\ IF is_paused THEN Rollback("unlock-multiple", sender, ERR_NOT_AUTHORIZED)
     ELSE IF ~(amount > 0) THEN Rollback("unlock-multiple", sender, ERR_INVALID_VALUE)
     ELSE IF ~(counter >= amount) THEN Rollback("unlock-multiple", sender, ERR_COUNTER_UNDERFLOW)
     ELSE IF ~Fits(total_decrements + amount) THEN Rollback("unlock-multiple", sender, RuntimeError)
     ELSE /\ counter' = counter - amount
          /\ total_decrements' = total_decrements + amount
          /\ response' = Called("unlock-multiple", sender, Ok(counter - amount))
          /\ UNCHANGED <<owner, paused, total_increments, user_operations>>
  /\ UNCHANGED <<stacks_block_height, clientVars>>

clear_ledger(sender) ==
  /\ IF ~is_contract_owner(sender) THEN Rollback("clear-ledger", sender, ERR_NOT_AUTHORIZED)
     ELSE /\ counter' = 0
          /\ response' = Called("clear-ledger", sender, Ok(0))
          /\ UNCHANGED <<owner, paused, total_increments, total_decrements, user_operations>>
  /\ UNCHANGED <<stacks_block_height, clientVars>>

set_lock_count(sender, new_value) ==
  /\ IF ~is_contract_owner(sender) THEN Rollback("set-lock-count", sender, ERR_NOT_AUTHORIZED)
     ELSE IF ~(new_value <= MAX_COUNTER_VALUE)
     THEN Rollback("set-lock-count", sender, ERR_INVALID_VALUE)
     ELSE /\ counter' = new_value
          /\ response' = Called("set-lock-count", sender, Ok(new_value))
          /\ UNCHANGED <<owner, paused, total_increments, total_decrements, user_operations>>
  /\ UNCHANGED <<stacks_block_height, clientVars>>

transfer_ownership(sender, new_owner) ==
  /\ IF ~is_contract_owner(sender)
     THEN Rollback("transfer-ownership", sender, ERR_NOT_AUTHORIZED)
     ELSE IF ~(new_owner # owner) THEN Rollback("transfer-ownership", sender, ERR_SAME_OWNER)
     ELSE /\ owner' = new_owner
          /\ response' = Called("transfer-ownership", sender, Ok(new_owner))
          /\ UNCHANGED <<counter, paused, total_increments, total_decrements, user_operations>>
  /\ UNCHANGED <<stacks_block_height, clientVars>>

\* The chain grows by a block.
mineBlock ==
  /\ stacks_block_height < MaxBlock
  /\ stacks_block_height' = stacks_block_height + 1
  /\ UNCHANGED <<counter, owner, paused, total_increments, total_decrements,
                 user_operations, response, clientVars>>

\* The contract alone: transactions from the three principals and new blocks.
NextLedger ==
  \/ \E sender \in Principals : lock(sender)
  \/ \E sender \in Principals : unlock(sender)
  \/ \E sender \in Principals, amount \in Uint : lock_multiple(sender, amount)
  \/ \E sender \in Principals, amount \in Uint : unlock_multiple(sender, amount)
  \/ \E sender \in Principals : clear_ledger(sender)
  \/ \E sender \in Principals, new_value \in Uint : set_lock_count(sender, new_value)
  \/ \E sender, new_owner \in Principals : transfer_ownership(sender, new_owner)
  \/ mineBlock

SpecLedger == Init /\ [][NextLedger]_vars

Next ==
  \/ /\ \E ok \in BOOLEAN : initialize(ok)
     /\ UNCHANGED ledgerVars
  \/ /\ \E uri \in Uris : pair(uri)
     /\ UNCHANGED ledgerVars
  \/ /\ \E c \in BagToSet(calls), ok \in BOOLEAN : pairSettled(c, ok)
     /\ UNCHANGED ledgerVars
  \/ /\ \E id \in ProposalIds, a \in Addresses, n \in StacksNetwork : approveSession(id, a, n)
     /\ UNCHANGED ledgerVars
  \/ /\ \E c \in BagToSet(calls) : approveSettled(c)
     /\ UNCHANGED ledgerVars
  \/ /\ \E id \in ProposalIds : rejectSession(id)
     /\ UNCHANGED ledgerVars
  \/ /\ \E c \in BagToSet(calls), ok \in BOOLEAN : rejectSettled(c, ok)
     /\ UNCHANGED ledgerVars
  \/ /\ \E t \in Topics : disconnectSession(t)
     /\ UNCHANGED ledgerVars
  \/ /\ \E c \in BagToSet(calls), ok \in BOOLEAN : disconnectSettled(c, ok)
     /\ UNCHANGED ledgerVars
  \/ /\ \E t \in Topics : sessionDelete(t)
     /\ UNCHANGED ledgerVars
  \/ /\ getActiveSessions
     /\ UNCHANGED ledgerVars
  \/ /\ Len(requests) < MaxRequests
     /\ \E t \in Topics, m \in Methods, ps \in Params : sessionRequest(t, m, ps)
     /\ UNCHANGED ledgerVars
  \/ /\ \E id \in RequestIds : handlerSettled(id)
     /\ UNCHANGED ledgerVars
  \/ /\ \E id \in RequestIds : respondResolved(id)
     /\ UNCHANGED ledgerVars
  \/ /\ \E id \in RequestIds, e \in TransportFailures : respondRejected(id, e)
     /\ UNCHANGED ledgerVars

Spec == Init /\ [][Next]_vars

\* The session lifecycle alone: the calls and the session_delete listener.
NextSessions ==
  \/ /\ \E ok \in BOOLEAN : initialize(ok)
     /\ UNCHANGED ledgerVars
  \/ /\ \E uri \in Uris : pair(uri)
     /\ UNCHANGED ledgerVars
  \/ /\ \E c \in BagToSet(calls), ok \in BOOLEAN : pairSettled(c, ok)
     /\ UNCHANGED ledgerVars
  \/ /\ \E id \in ProposalIds, a \in Addresses, n \in StacksNetwork : approveSession(id, a, n)
     /\ UNCHANGED ledgerVars
  \/ /\ \E c \in BagToSet(calls) : approveSettled(c)
     /\ UNCHANGED ledgerVars
  \/ /\ \E id \in ProposalIds : rejectSession(id)
     /\ UNCHANGED ledgerVars
  \/ /\ \E c \in BagToSet(calls), ok \in BOOLEAN : rejectSettled(c, ok)
     /\ UNCHANGED ledgerVars
  \/ /\ \E t \in Topics : disconnectSession(t)
     /\ UNCHANGED ledgerVars
  \/ /\ \E c \in BagToSet(calls), ok \in BOOLEAN : disconnectSettled(c, ok)
     /\ UNCHANGED ledgerVars
  \/ /\ \E t \in Topics : sessionDelete(t)
     /\ UNCHANGED ledgerVars

SpecSessions == Init /\ [][NextSessions]_vars

\* The dispatcher with requests in flight at the same time: sessions come
\* from approvals of one proposal on mainnet, up to MaxOverlap requests are
\* delivered.
NextRequests ==
  \/ /\ initialize(TRUE)
     /\ UNCHANGED ledgerVars
  \/ /\ \E a \in Addresses : approveSession(11, a, "mainnet")
     /\ UNCHANGED ledgerVars
  \/ /\ \E c \in BagToSet(calls) : approveSettled(c)
     /\ UNCHANGED ledgerVars
  \/ /\ Len(requests) < MaxOverlap
     /\ \E t \in Topics, m \in Methods : sessionRequest(t, m, "{}")
     /\ UNCHANGED ledgerVars
  \/ /\ \E id \in 1..MaxOverlap : handlerSettled(id)
     /\ UNCHANGED ledgerVars
  \/ /\ \E id \in 1..MaxOverlap : respondResolved(id)
     /\ UNCHANGED ledgerVars
  \/ /\ \E id \in 1..MaxOverlap, e \in TransportFailures : respondRejected(id, e)
     /\ UNCHANGED ledgerVars

SpecRequests == Init /\ [][NextRequests]_vars

\* The event loop runs every continuation that is ready: a handling that
\* awaits its (already settled) handler is resumed.
Resumes ==
  \A id \in RequestIds : WF_vars(handlerSettled(id) /\ UNCHANGED ledgerVars)

FairSpec == Spec /\ Resumes

(* ======================= session lifecycle claims ===================== *)

StoredTopics == DOMAIN activeSessions

\* C1: the step in which an approval whose transport call succeeded with
\* topic t stores its session adds exactly one entry to the store: the store
\* has one more entry than before the step, the new key is t, the entry holds
\* addresses [{symbol: "STX", address: a}] and network n for the a and n of
\* the call, and every other entry is as it was.
C1_ApproveAddsOneEntry ==
  [][\A c \in Suspended("approveSession") :
       (approveSettled(c) /\ c.session # NoSession) =>
         LET t == c.session.topic
         IN /\ Cardinality(DOMAIN activeSessions') = Cardinality(StoredTopics) + 1
            /\ DOMAIN activeSessions' = StoredTopics \cup {t}
            /\ activeSessions'[t].addresses = <<[symbol |-> "STX", address |-> c.address]>>
            /\ activeSessions'[t].network = c.network
            /\ \A u \in StoredTopics : activeSessions'[u] = activeSessions[u]]_vars

\* C1 witness: a devnet approval has just returned and the store holds two entries.
C1_Witness ==
  /\ last.op = "approveSession" /\ last.outcome = "returned"
  /\ Cardinality(StoredTopics) = 2
  /\ activeSessions[last.arg].network = "devnet"

\* This step is an approval that yielded topic t.
ApprovalYields(t) ==
  \E c \in Suspended("approveSession") : c.session.topic = t /\ approveSettled(c)
\* This step is a local disconnect of t that went through, or the handling of
\* a remote session_delete of t.
Removes(t) ==
  \/ \E c \in Suspended("disconnectSession") : c.params.topic = t /\ disconnectSettled(c, TRUE)
  \/ sessionDelete(t)

\* C4: the store starts empty, and in every step a topic t is stored afterwards
\* exactly if this step is an approval that yielded t, or t was stored before
\* and this step is neither a local disconnect nor a remote session_delete of
\* t; so in every reachable state t is stored if and only if an approval yielded
\* t and no disconnect or session_delete of t followed it.
C4_StoredIffApprovedAndNotRemoved ==
  /\ activeSessions = EmptyMap
  /\ [][\A t \in Topics :
          (t \in DOMAIN activeSessions') <=>
            (ApprovalYields(t) \/ (t \in StoredTopics /\ ~Removes(t)))]_vars

\* C4 witness: a topic once approved has been removed by a local disconnect
\* while another approved topic is still stored.
C4_Witness ==
  /\ last.op = "disconnectSession" /\ last.outcome = "returned"
  /\ last.arg \in assigned /\ last.arg \notin StoredTopics
  /\ StoredTopics # {}

\* C5: no step of rejectSession, neither the call nor the settling of the
\* transport's rejectSession (resolved or rejected), changes the session store.
C5_RejectLeavesStore ==
  [][((\E id \in ProposalIds : rejectSession(id))
        \/ (\E c \in Suspended("rejectSession"), ok \in BOOLEAN : rejectSettled(c, ok)))
      => activeSessions' = activeSessions]_vars

\* C5 witness: a rejectSession whose transport call failed has just ended and
\* the store is not empty.
C5_Witness ==
  /\ last.op = "rejectSession" /\ last.outcome = "TransportError"
  /\ StoredTopics # {}

\* C10: while walletKit is null, every call of pair, approveSession,
\* rejectSession and disconnectSession ends with NotInitialized, makes no
\* transport call, suspends nothing and leaves the session store unchanged.
C10_NotInitialized ==
  [][(walletKit = "null" /\
        (\/ \E uri \in Uris : pair(uri)
         \/ \E id \in ProposalIds, a \in Addresses, n \in StacksNetwork : approveSession(id, a, n)
         \/ \E id \in ProposalIds : rejectSession(id)
         \/ \E t \in Topics : disconnectSession(t)))
      => /\ last'.outcome = "NotInitialized"
         /\ last'.transport = "none"
         /\ calls' = calls
         /\ activeSessions' = activeSessions]_vars

\* C10 witness: initialize has failed, then disconnectSession was refused.
C10_Witness ==
  /\ walletKit = "null"
  /\ last.op = "disconnectSession" /\ last.outcome = "NotInitialized"

(* ========================== dispatcher claims ========================= *)

\* The Responses passed to respondSessionRequest for request id, in order.
ResponsesFor(id) == SelectSeq(responses, LAMBDA x : x.response.id = id)
HasResult(x) == "result" \in DOMAIN x.response
HasError(x) == "error" \in DOMAIN x.response
\* The error Response the dispatcher owes request r for a failure `message`.
ErrorResponseTo(r, message) ==
  [topic |-> r.topic,
   response |-> [id |-> r.id, jsonrpc |-> "2.0",
                 error |-> [code |-> 5000, message |-> message]]]
\* Request r has exactly one Response so far, the error Response for `message`.
OnlyError(r, message) == ResponsesFor(r.id) = <<ErrorResponseTo(r, message)>>
Handled == {requests[i] : i \in 1..Len(requests)}
\* The handling that this step's session_request event starts.
Started == requests'[Len(requests')]
\* This step is the delivery of a stx_getAddresses request.
StartsGetAddresses ==
  /\ Len(requests') = Len(requests) + 1
  /\ Started.method = "stx_getAddresses"

\* C2 (as claimed): respondSessionRequest is invoked at most once per request id.
C2_AtMostOneResponse ==
  \A id \in RequestIds : Len(ResponsesFor(id)) <= 1

\* C3: every delivered session_request is eventually answered: a Response
\* with its id is eventually passed to respondSessionRequest.
C3_EventuallyAnswered ==
  \A id \in RequestIds : (Len(requests) >= id) ~> (ResponsesFor(id) # << >>)

\* C3 witness: a stx_callContract request, whose handler failed, has been
\* answered and its handling has ended.
C3_Witness ==
  \E r \in Handled :
    /\ r.method = "stx_callContract" /\ r.pc = "done"
    /\ ResponsesFor(r.id) # << >>

C6_ErrorOnly ==
  \A r \in Handled :
    (r.method = "stx_getAddresses" /\ ~r.outcome.ok) =>
      IF r.pc = "awaitHandler" THEN ResponsesFor(r.id) = << >>
      ELSE OnlyError(r, "Session not found")

\* C6: a stx_getAddresses request whose topic is not stored when the event is
\* handled ends its handler with "Session not found", and such a request gets
\* no Response while it awaits the handler and afterwards exactly one, the
\* error Response (code 5000, "Session not found"), never a result.
C6_AbsentTopicError ==
  /\ [][(StartsGetAddresses /\ Started.topic \notin StoredTopics)
          => Started.outcome = Thrown(Error("Session not found"))]_vars
  /\ []C6_ErrorOnly

\* C6 witness: a stx_getAddresses request on a topic that was approved and
\* then removed has been answered with the error.
C6_Witness ==
  \E r \in Handled :
    /\ r.method = "stx_getAddresses" /\ r.pc = "done" /\ ~r.outcome.ok
    /\ r.topic \in assigned /\ r.topic \notin StoredTopics

C7_ResultFirst ==
  \A r \in Handled :
    (r.method = "stx_getAddresses" /\ r.outcome.ok) =>
      IF r.pc = "awaitHandler" THEN ResponsesFor(r.id) = << >>
      ELSE /\ ResponsesFor(r.id) # << >>
           /\ ResponsesFor(r.id)[1] =
                [topic |-> r.topic,
                 response |-> [id |-> r.id, jsonrpc |-> "2.0", result |-> r.outcome.value]]
           /\ ~HasError(ResponsesFor(r.id)[1])

\* C7: a stx_getAddresses request whose topic is stored when the event is
\* handled ends its handler with the accounts stored for the topic, and the
\* Response sent for that value is a success Response with the request's id
\* and topic whose result.addresses are those accounts, without an error field.
C7_StoredTopicAddresses ==
  /\ [][(StartsGetAddresses /\ Started.topic \in StoredTopics)
          => Started.outcome =
               Returned([addresses |-> activeSessions[Started.topic].addresses])]_vars
  /\ []C7_ResultFirst

\* C7 witness: with two sessions stored, a stx_getAddresses request on the
\* second has been answered with its accounts.
C7_Witness ==
  \E r \in Handled :
    /\ r.method = "stx_getAddresses" /\ r.pc = "done" /\ r.outcome.ok
    /\ Cardinality(StoredTopics) = 2 /\ r.topic = 2
    /\ HasResult(ResponsesFor(r.id)[1])

\* The message each placeholder handler owes.
NotImplementedText(method) ==
  CASE method = "stx_transferStx" ->
         "Transfer STX not implemented - connect to your wallet implementation"
    [] method = "stx_signTransaction" ->
         "Sign transaction not implemented - connect to your wallet implementation"
    [] method = "stx_signMessage" ->
         "Sign message not implemented - connect to your wallet implementation"
    [] method = "stx_signStructuredMessage" ->
         "Sign structured message not implemented - connect to your wallet implementation"
    [] method = "stx_callContract" ->
         "Call contract not implemented - connect to your wallet implementation"
Placeholders == ApprovedMethods \ {"stx_getAddresses"}

\* C8: a request for one of the five placeholder methods gets no Response
\* while it awaits the handler and afterwards exactly one: the error Response
\* with the request's id, code 5000 and the method's "not implemented" text,
\* never a result, whatever the params and whether or not the topic is stored.
C8_PlaceholderError ==
  \A r \in Handled :
    r.method \in Placeholders =>
      IF r.pc = "awaitHandler" THEN ResponsesFor(r.id) = << >>
      ELSE OnlyError(r, NotImplementedText(r.method))

\* C8 witness: a stx_signMessage request on a stored topic has been answered.
C8_Witness ==
  \E r \in Handled :
    /\ r.method = "stx_signMessage" /\ r.pc = "done"
    /\ r.topic \in StoredTopics
    /\ HasError(ResponsesFor(r.id)[1])

\* C9: a request whose method is outside the six-entry table invokes no
\* handler and has exactly one Response, the error Response with the request's
\* id, code 5000 and the message "Unsupported method: <method>", never a result.
C9_UnsupportedMethod ==
  \A r \in Handled :
    r.method \notin ApprovedMethods =>
      /\ r.handler = "none"
      /\ OnlyError(r, "Unsupported method: " \o r.method)

\* C9 witness: a stx_getAccounts request has been answered.
C9_Witness ==
  \E r \in Handled :
    /\ r.method = "stx_getAccounts" /\ r.pc = "done"
    /\ HasError(ResponsesFor(r.id)[1])

(* ===================== error propagation and removal ================== *)

\* C11: when the transport refuses an approval, the settling of approveSession
\* ends with the transport's error for its caller and leaves the session store
\* exactly as it was; and a settling of approveSession that changes the store
\* is one whose transport call succeeded.
C11_RefusedApprovalPropagates ==
  [][\A c \in Suspended("approveSession") :
       approveSettled(c) =>
         /\ (c.session = NoSession) =>
              /\ last'.outcome = "TransportError"
              /\ activeSessions' = activeSessions
         /\ (activeSessions' # activeSessions) => c.session # NoSession]_vars

\* C11 witness: an approval was refused while a session is stored.
C11_Witness ==
  /\ last.op = "approveSession" /\ last.outcome = "TransportError"
  /\ StoredTopics # {}

\* C12: every handling of session_delete for topic t returns without an error
\* and leaves t absent from the store; when t is already absent (a second
\* handling in a row, or a topic that was never stored) the handling changes
\* nothing in the store.
C12_RemovalIdempotent ==
  [][\A t \in Topics :
       sessionDelete(t) =>
         /\ t \notin DOMAIN activeSessions'
         /\ last'.outcome = "returned"
         /\ (t \notin StoredTopics) => activeSessions' = activeSessions]_vars

\* C12 witness: session_delete was handled for a topic that is not stored and
\* that no approval ever yielded, while another session is stored.
C12_Witness ==
  /\ last.op = "session_delete" /\ last.outcome = "returned"
  /\ last.arg \notin assigned /\ last.arg \notin StoredTopics
  /\ StoredTopics # {}

\* C13 (as claimed, the clause on a suspended approval): when session_delete
\* for topic t has just been handled while an approveSession whose transport
\* call yields t is suspended, the settling of that approveSession does not
\* make t present again.
C13_DeleteStaysDeleted ==
  [][\A c \in Suspended("approveSession") :
       (/\ last.op = "session_delete" /\ last.arg = c.session.topic
        /\ approveSettled(c))
       => c.session.topic \notin DOMAIN activeSessions']_vars

\* C14: on an initialized client a call of disconnectSession(t) makes one call
\* of the transport's disconnectSession for t and suspends on it; every step
\* in which disconnectSession(t) returns is the settling of such a suspended
\* transport call, makes no further transport call and leaves t absent from
\* the store, whether or not t was stored before.
C14_DisconnectRemoves ==
  [][\A t \in Topics :
       /\ (walletKit = "kit" /\ disconnectSession(t)) =>
            /\ last'.transport = "disconnectSession"
            /\ \E c \in Suspended("disconnectSession")' :
                 c.params.topic = t /\ calls' = Suspend(c)
       /\ (last'.op = "disconnectSession" /\ last'.arg = t /\ last'.outcome = "returned") =>
            /\ \E c \in Suspended("disconnectSession") :
                 c.params.topic = t /\ calls' = Resume(c)
            /\ last'.transport = "none"
            /\ t \notin DOMAIN activeSessions']_vars

\* C14 witness: disconnectSession has returned for a topic that was never
\* stored, while another session is stored.
C14_Witness ==
  /\ last.op = "disconnectSession" /\ last.outcome = "returned"
  /\ last.arg \notin assigned /\ last.arg \notin StoredTopics
  /\ StoredTopics # {}

(* ===================== response shape and the frame =================== *)

\* The Response x has the shape of a JSON-RPC answer to request r.
AnswersRequest(x, r) ==
  /\ x.topic = r.topic
  /\ x.response.id = r.id
  /\ x.response.jsonrpc = "2.0"
  /\ \/ DOMAIN x.response = {"id", "jsonrpc", "result"}
     \/ /\ DOMAIN x.response = {"id", "jsonrpc", "error"}
        /\ DOMAIN x.response.error = {"code", "message"}

\* C15: every Response passed to respondSessionRequest carries the id and the
\* topic of a request that was delivered, jsonrpc "2.0", and either a result
\* field or an error field made of code and message: never both, never none.
C15_ResponseShape ==
  \A i \in 1..Len(responses) :
    /\ HasResult(responses[i]) # HasError(responses[i])
    /\ \E r \in Handled : AnswersRequest(responses[i], r)

\* C15 witness: a result Response for topic 2 has been delivered and the
\* handling of its request has ended.
C15_Witness ==
  \E i \in 1..Len(responses) :
    /\ HasResult(responses[i]) /\ responses[i].topic = 2
    /\ requests[responses[i].response.id].pc = "done"

\* The operations that may write the session store.
StoreWriters == {"approveSession", "disconnectSession", "session_delete"}
\* The operations C16 names: pair, rejectSession, getActiveSessions and the
\* handling of a session_request, each with all its steps (the call and the
\* settling of its transport calls).
StoreReaders == {"pair", "rejectSession", "getActiveSessions", "session_request"}

\* C16: every step of pair, of rejectSession, of getActiveSessions and of the
\* handling of a session_request (any method, any outcome) leaves the session
\* store exactly as it was; a step that changes the store is a step of
\* approveSession, of disconnectSession or of the session_delete listener.
C16_StoreFrame ==
  [][/\ (last'.op \in StoreReaders) => activeSessions' = activeSessions
     /\ (activeSessions' # activeSessions) => last'.op \in StoreWriters]_vars

\* C16 witness: getActiveSessions has returned two sessions after a request
\* was answered, and both are still stored.
C16_Witness ==
  /\ last.op = "getActiveSessions" /\ Cardinality(last.arg) = 2
  /\ Cardinality(StoredTopics) = 2
  /\ \E r \in Handled : r.pc = "done"

\* The elements of a sequence.
Range(seq) == {seq[i] : i \in 1..Len(seq)}

\* What the namespaces of an approval for address a on network n must be.
FixedCapabilities(c) ==
  /\ DOMAIN c.params.namespaces = {"stacks"}
  /\ Len(c.params.namespaces.stacks.methods) = Cardinality(ApprovedMethods)
  /\ Range(c.params.namespaces.stacks.methods) = ApprovedMethods
  /\ Len(c.params.namespaces.stacks.events) = Cardinality(ApprovedEvents)
  /\ Range(c.params.namespaces.stacks.events) = ApprovedEvents
  /\ c.params.namespaces.stacks.accounts = <<"stacks:" \o c.network \o ":" \o c.address>>

\* C17: every approveSession call made to the transport, whatever methods the
\* proposal requested, announces exactly the six approved methods, exactly the
\* two approved events and the single account "stacks:<network>:<address>" of
\* the address and network it was called with; and the dispatcher's switch has
\* a branch that invokes a handler for each of the six approved methods.
C17_FixedCapabilities ==
  /\ [][\A id \in ProposalIds, a \in Addresses, n \in StacksNetwork :
          (walletKit = "kit" /\ approveSession(id, a, n)) =>
            \E c \in Suspended("approveSession")' :
              /\ calls' = Suspend(c)
              /\ c.params.id = id /\ c.address = a /\ c.network = n
              /\ FixedCapabilities(c)]_vars
  /\ [](\A c \in Suspended("approveSession") : FixedCapabilities(c))
  /\ [](\A m \in ApprovedMethods, t \in Topics, ps \in Params :
          MethodSwitch(m, t, ps).handler # "none")

\* C17 witness: a testnet approval is suspended on the transport for a
\* proposal that requested a method outside the approved set.
C17_Witness ==
  /\ last.op = "approveSession" /\ last.outcome = "pending"
  /\ \E c \in Suspended("approveSession") :
       /\ "eth_sign" \in c.proposal.params.requested
       /\ c.network = "testnet" /\ c.params.id = last.arg

(* ==================== faults, ordering, independence ================== *)

\* C18 (as claimed): no handling of a session_request ends by rejecting the
\* promise that handleSessionRequest returned to the session_request listener.
C18_NeverRejects ==
  \A r \in Handled : r.pc # "rejected"

\* The positions in `responses` of the Responses to request id.
PositionsOf(id) == {p \in 1..Len(responses) : responses[p].response.id = id}

\* C19 (as claimed): for two requests on the same topic, every Response to the
\* one delivered second is passed to respondSessionRequest after a Response
\* to the one delivered first.
C19_ArrivalOrder ==
  \A i, j \in 1..Len(requests) :
    (i < j /\ requests[i].topic = requests[j].topic) =>
      \A q \in PositionsOf(j) : \E p \in PositionsOf(i) : p < q

\* This step belongs to an operation on topic t: the settling of an approval
\* that yields t, the handling of session_delete for t, a step of
\* disconnectSession(t), or a step of the handling of a request on t.
OperatesOn(t) ==
  \/ \E c \in Suspended("approveSession") : c.session.topic = t /\ calls' = Resume(c)
  \/ last'.op \in {"session_delete", "disconnectSession"} /\ last'.arg = t
  \/ last'.op = "session_request" /\ requests'[last'.arg].topic = t

\* The stored record of u (presence, addresses, network) is as it was.
RecordKept(u) ==
  /\ (u \in DOMAIN activeSessions') <=> (u \in StoredTopics)
  /\ (u \in StoredTopics) => activeSessions'[u] = activeSessions[u]

\* The requests on u handled so far keep their outcome and their position,
\* and the Responses on u are as they were.
RequestsKept(u) ==
  /\ \A i \in 1..Len(requests) :
       requests[i].topic = u => requests'[i] = requests[i]
  /\ SelectSeq(responses', LAMBDA x : x.topic = u)
       = SelectSeq(responses, LAMBDA x : x.topic = u)

\* C20: for distinct topics t and u, no step of an operation on t (approval
\* yielding t, session_delete of t, disconnectSession(t), handling of a request
\* on t) changes the stored record of u, the requests on u in flight or the
\* Responses on u; and the outcome of a stx_getAddresses request on u is
\* fixed by the record stored under u alone.
C20_TopicsIndependent ==
  /\ [][\A t \in Topics : OperatesOn(t) =>
          \A u \in Topics \ {t} : RecordKept(u) /\ RequestsKept(u)]_vars
  /\ [][StartsGetAddresses =>
          LET u == Started.topic
          IN /\ Started.outcome.ok <=> (u \in StoredTopics)
             /\ Started.outcome.ok =>
                  Started.outcome.value = [addresses |-> activeSessions[u].addresses]]_vars

\* C20 witness: session_delete has removed topic 1 while a stx_getAddresses
\* request on topic 2, still stored, awaits its handler.
C20_Witness ==
  /\ last.op = "session_delete" /\ last.arg = 1
  /\ 1 \in assigned /\ StoredTopics = {2}
  /\ \E r \in Handled :
       r.topic = 2 /\ r.method = "stx_getAddresses" /\ r.pc = "awaitHandler" /\ r.outcome.ok

(* ================== stored records, failing disconnect ================ *)

\* C21: the record stored under a topic is the one its approval wrote (its
\* own topic, one STX account, the network of the call), and in every step a
\* topic that stays stored keeps its record unless the step is the settling
\* of an approval whose transport-assigned topic is that topic, which writes
\* a whole new record from the arguments of that call.
C21_StoredRecordFixed ==
  /\ [][\A t \in StoredTopics \cap DOMAIN activeSessions' :
          \/ activeSessions'[t] = activeSessions[t]
          \/ \E c \in Suspended("approveSession") :
               /\ c.session.topic = t /\ approveSettled(c)
               /\ activeSessions'[t] = NewSession(t, c.address, c.network)]_vars
  /\ [](\A t \in StoredTopics :
          /\ activeSessions[t].topic = t
          /\ activeSessions[t].network \in StacksNetwork
          /\ \E a \in Addresses :
               activeSessions[t].addresses = <<[symbol |-> "STX", address |-> a]>>)

\* C21 witness: after a stx_getAddresses request on topic 1 was answered with
\* its accounts and a second session was approved on another network,
\* getActiveSessions returns both and topic 1 is still on devnet.
C21_Witness ==
  /\ last.op = "getActiveSessions"
  /\ StoredTopics = {1, 2}
  /\ activeSessions[1].network = "devnet" /\ activeSessions[2].network = "mainnet"
  /\ \E r \in Handled :
       r.topic = 1 /\ r.method = "stx_getAddresses" /\ r.pc = "done" /\ r.outcome.ok

\* C22: when the transport's disconnectSession fails, the settling of
\* disconnectSession(t) ends with the transport's error for its caller and
\* leaves the session store exactly as it was; a topic that was stored is
\* still stored, and a stx_getAddresses lookup on it made from then on yields
\* the accounts of its record.
C22_FailedDisconnectKeeps ==
  [][\A c \in Suspended("disconnectSession") :
       disconnectSettled(c, FALSE) =>
         LET t == c.params.topic
         IN /\ last'.outcome = "TransportError"
            /\ activeSessions' = activeSessions
            /\ (t \in StoredTopics) =>
                 /\ t \in DOMAIN activeSessions'
                 /\ handleGetAddresses(t)' =
                      Returned([addresses |-> activeSessions[t].addresses])]_vars

\* C22 witness: disconnectSession(2) has failed on the transport, topic 2 is
\* still stored, and a stx_getAddresses request on it holds its accounts.
C22_Witness ==
  /\ last.op = "disconnectSession" /\ last.outcome = "TransportError" /\ last.arg = 2
  /\ 2 \in StoredTopics
  /\ \E r \in Handled :
       /\ r.topic = 2 /\ r.method = "stx_getAddresses"
       /\ r.outcome = Returned([addresses |-> activeSessions[2].addresses])

(* ========================= ledger-lock contract ======================= *)

\* The data a transaction can change, apart from the call record.
LedgerData == <<counter, owner, paused, total_increments, total_decrements, user_operations>>

\* This step is a contract call of one of the functions fns (every call
\* writes `response`; a new block leaves it alone and is no call).
CallOf(fns) ==
  /\ response'.fn \in fns
  /\ stacks_block_height' = stacks_block_height
  /\ clientVars' = clientVars
OwnerOnly == {"clear-ledger", "set-lock-count", "transfer-ownership"}

\* C23: every call of clear-ledger, set-lock-count or transfer-ownership by a
\* tx-sender other than the current owner returns (err u100) and changes no
\* data; a call by the owner is never refused with u100; transfer-ownership by
\* the owner to itself returns (err u105) and changes no data, and to another
\* principal makes that principal the owner, so that the previous owner is
\* refused from then on and the new one is not.
C23_OwnerOnly ==
  [][/\ CallOf(OwnerOnly) =>
          IF response'.sender # owner
          THEN response'.result = ERR_NOT_AUTHORIZED /\ UNCHANGED LedgerData
          ELSE response'.result.kind = "ok" \/ response'.result = ERR_SAME_OWNER
     /\ (CallOf({"transfer-ownership"}) /\ response'.sender = owner) =>
          IF response'.result.kind # "ok"
          THEN /\ response'.result = ERR_SAME_OWNER
               /\ transfer_ownership(owner, owner)
               /\ UNCHANGED LedgerData
          ELSE /\ owner' # owner
               /\ \A s, n \in Principals :
                    (s = owner /\ n = owner') =>
                      /\ transfer_ownership(s, n)
                      /\ is_contract_owner(n)' /\ ~is_contract_owner(s)'
               /\ UNCHANGED <<counter, total_increments, total_decrements, user_operations>>]_vars

\* C23 witness: after ownership went from the deployer to wallet_1, the
\* deployer's clear-ledger is refused while the counter is not zero.
C23_Witness ==
  /\ owner = "wallet_1"
  /\ response = Called("clear-ledger", "deployer", ERR_NOT_AUTHORIZED)
  /\ counter > 0

\* C24 (as claimed, the clause on lock-multiple): a call lock-multiple(n)
\* with n > 0 that would take the counter above MAX-COUNTER-VALUE returns
\* ERR-COUNTER-OVERFLOW (err u102).
C24_LockMultipleOverflow ==
  [][(/\ CallOf({"lock-multiple"})
      /\ \E n \in Uint :
           /\ n > 0 /\ counter + n > MAX_COUNTER_VALUE
           /\ lock_multiple(response'.sender, n))
     => response'.result = ERR_COUNTER_OVERFLOW]_vars

\* The sum of f over the principals in S.
RECURSIVE SumOver(_, _)
SumOver(S, f) ==
  IF S = {} THEN 0
  ELSE LET p == CHOOSE x \in S : TRUE
       IN f[p] + SumOver(S \ {p}, f)

\* C25 (as claimed): total-increments is the sum of the increments of all
\* user-operations entries, and total-decrements the sum of their decrements.
C25_TotalsAreSums ==
  /\ total_increments =
       SumOver(DOMAIN user_operations, [p \in DOMAIN user_operations |-> user_operations[p].increments])
  /\ total_decrements =
       SumOver(DOMAIN user_operations, [p \in DOMAIN user_operations |-> user_operations[p].decrements])
====
